---------------------------- MODULE Spec2Model ----------------------------
(***************************************************************************)
(* Model of server.js (DebtDude backend): the transaction analysis         *)
(* functions, the data-requirement classifier, the chat response router    *)
(* and the in-memory conversation/message store with its HTTP handlers.    *)
(*                                                                         *)
(* Conventions                                                             *)
(*  - A JavaScript string that the code inspects character by character    *)
(*    (the chat message) is a sequence of one-character strings.           *)
(*  - A value that may be undefined/absent is a record with a `present`    *)
(*    flag (Absent, Some(v)); null is the record Null.                     *)
(*  - Time is an integer number of clock units.  The same variable `clock` *)
(*    is what moment(), Date.now() and new Date() read.                    *)
(*  - Amounts are integers (whole currency units).                         *)
(*  - Date.now().toString() is injective on clock readings, so an id is    *)
(*    modelled by the integer whose decimal string it is.                  *)
(***************************************************************************)
EXTENDS Integers, Sequences, FiniteSets, TLC

VARIABLES
    clock,          \* the reading of the system clock (Date.now(), moment())
    conversations,  \* server.js:15  let conversations = []
    messages,       \* server.js:16  let messages = {}   (own keys = DOMAIN)
    requests,       \* the accepted send-message requests, in order of arrival
    lastResponse,   \* the response most recently sent to a send-message request
    generatorCalls, \* the prompts actually posted to the external generator
    analyzeReq,     \* body of the POST /api/analyze request under analysis
    analyzeRes,     \* its response
    rankIn,         \* argument of the getTopPeople call under analysis
    rankOut         \* its return value

vars == << clock, conversations, messages, requests, lastResponse, generatorCalls,
           analyzeReq, analyzeRes, rankIn, rankOut >>

serverVars == << clock, conversations, messages, requests, lastResponse,
                 generatorCalls >>

--------------------------------------------------------------------------
(* Bounds of the model *)

\* sequences of at most this many transactions are posted to /api/analyze
MaxTx == 2
\* getTopPeople is called on every sequence of at most this many transactions
MaxPlainTx == 3
\* ... and on longer ones, whose names first appear in the order of Roster
MaxRankTx == 6
\* the clock advances at most this many units past Epoch
MaxTicks == 1
\* at most this many requests that change the store arrive (conversation
\* creations and send-message requests that pass validation)
MaxArrivals == 2

--------------------------------------------------------------------------
(* Optional values *)

Absent == [present |-> FALSE]
Some(v) == [present |-> TRUE, value |-> v]
Null == [isNull |-> TRUE]
Text(t) == [isNull |-> FALSE, text |-> t]

Min(a, b) == IF a < b THEN a ELSE b
Abs(x) == IF x < 0 THEN -x ELSE x

SeqsUpTo(S, n) == UNION { [1..k -> S] : k \in 0..n }

--------------------------------------------------------------------------
(* Time *)

\* the clock reading when the process starts serving
Epoch == 400

\* moment durations, in clock units (one unit = one day; a month is taken
\* as 30 days and a year as 365)
DayLen == 1
WeekLen == 7
MonthLen == 30
YearLen == 365

--------------------------------------------------------------------------
(* getTopPeople, server.js:66-79 *)

\* Names whose canonical form is an array index: Object keys of this kind
\* are enumerated first, in ascending numeric order, whatever the order in
\* which they were created.
ArrayIndexNames == {"9", "10"}
ArrayIndexValue(name) == CASE name = "9" -> 9 [] name = "10" -> 10

\* Names that are properties of Object.prototype: people[name] is truthy
\* before any assignment, so no own property is ever created for them and
\* the += of lines 72-73 lands on the inherited object.
PrototypeNames == {"constructor"}

TopN == 5

\* people after the forEach of lines 68-74: the own properties of `people`
\* as a sequence in creation order.
RECURSIVE Accumulate(_, _)
Accumulate(people, transactions) ==
    IF transactions = <<>> THEN people
    ELSE LET t == Head(transactions)
             known == \E i \in 1..Len(people) : people[i].name = t.name
             withKey == IF known THEN people
                        ELSE Append(people, [name |-> t.name, amount |-> 0, count |-> 0])
             updated == [i \in 1..Len(withKey) |->
                           IF withKey[i].name = t.name
                           THEN [withKey[i] EXCEPT !.amount = @ + Abs(t.amount),
                                                   !.count = @ + 1]
                           ELSE withKey[i]]
         IN IF t.name \in PrototypeNames
            THEN Accumulate(people, Tail(transactions))
            ELSE Accumulate(updated, Tail(transactions))

\* insertion of an array-index key among the array-index keys, ascending
RECURSIVE InsertByIndex(_, _)
InsertByIndex(sorted, g) ==
    IF sorted = <<>> THEN << g >>
    ELSE IF ArrayIndexValue(g.name) < ArrayIndexValue(Head(sorted).name)
         THEN << g >> \o sorted
         ELSE << Head(sorted) >> \o InsertByIndex(Tail(sorted), g)

RECURSIVE SortByIndex(_)
SortByIndex(groups) ==
    IF groups = <<>> THEN <<>>
    ELSE InsertByIndex(SortByIndex(Tail(groups)), Head(groups))

IsArrayIndex(g) == g.name \in ArrayIndexNames
IsNotArrayIndex(g) == g.name \notin ArrayIndexNames

\* Object.values(people), line 76: array-index keys ascending, then the other
\* keys in creation order.
ObjectValues(people) ==
    SortByIndex(SelectSeq(people, IsArrayIndex)) \o SelectSeq(people, IsNotArrayIndex)

\* the comparator of line 77
compare(a, b) == b.amount - a.amount

\* Array.prototype.sort is stable: x goes after every element that the
\* comparator does not place after it.
RECURSIVE InsertStable(_, _)
InsertStable(sorted, x) ==
    IF sorted = <<>> THEN << x >>
    ELSE IF compare(Head(sorted), x) <= 0
         THEN << Head(sorted) >> \o InsertStable(Tail(sorted), x)
         ELSE << x >> \o sorted

RECURSIVE StableSort(_)
StableSort(s) ==
    IF s = <<>> THEN <<>>
    ELSE InsertStable(StableSort(SubSeq(s, 1, Len(s) - 1)), s[Len(s)])

\* slice(0, n)
SliceFirst(s, n) == SubSeq(s, 1, Min(n, Len(s)))
\* slice(-n)
SliceLast(s, n) == SubSeq(s, Len(s) - Min(n, Len(s)) + 1, Len(s))

getTopPeople(transactions) ==
    SliceFirst(StableSort(ObjectValues(Accumulate(<<>>, transactions))), TopN)

--------------------------------------------------------------------------
(* analyzeTransactions, server.js:19-64 *)

DefaultPeriod == "week"

lookbackMutant(period) ==
    CASE period = "day" -> DayLen
      [] period = "week" -> WeekLen
      [] period = "month" -> MonthLen
      [] period = "year" -> YearLen
      [] OTHER -> MonthLen

\* the switch of lines 23-38
lookback(period) ==
    CASE period = "day" -> DayLen
      [] period = "week" -> WeekLen
      [] period = "month" -> MonthLen
      [] period = "year" -> YearLen
      [] OTHER -> WeekLen

\* moment(t.timestamp).isAfter(startDate), line 41
isAfterMutant(timestamp, startDate) == timestamp >= startDate
isAfter(timestamp, startDate) == timestamp > startDate

RECURSIVE SumSpent(_)
SumSpent(ts) ==
    IF ts = <<>> THEN 0
    ELSE SumSpent(SubSeq(ts, 1, Len(ts) - 1)) + Abs(ts[Len(ts)].amount)

RECURSIVE SumReceived(_)
SumReceived(ts) ==
    IF ts = <<>> THEN 0
    ELSE SumReceived(SubSeq(ts, 1, Len(ts) - 1)) + ts[Len(ts)].amount

IsNegative(t) == t.amount < 0
IsPositive(t) == t.amount > 0

analyzeTransactions(transactions, period, now) ==
    LET startDate == now - lookback(period)
        InWindow(t) == isAfter(t.timestamp, startDate)
        filteredTransactions == SelectSeq(transactions, InWindow)
        totalSpent == SumSpent(SelectSeq(filteredTransactions, IsNegative))
        totalReceived == SumReceived(SelectSeq(filteredTransactions, IsPositive))
    IN [ period |-> period,
         totalSpent |-> totalSpent,
         totalReceived |-> totalReceived,
         netAmount |-> totalReceived - totalSpent,
         transactionCount |-> Len(filteredTransactions),
         topSenders |-> getTopPeople(SelectSeq(filteredTransactions, IsPositive)),
         topReceivers |-> getTopPeople(SelectSeq(filteredTransactions, IsNegative)) ]

--------------------------------------------------------------------------
(* The chat messages of the model *)

MsgBalance ==
    <<"W","h","a","t","'","s"," ","m","y"," ","B","A","L","A","N","C","E","?">>
MsgHello ==
    <<"H","e","l","l","o",","," ","h","o","w"," ","a","r","e"," ","y","o","u","?">>
MsgTip ==
    <<"G","i","v","e"," ","m","e"," ","a"," ","b","u","d","g","e","t","i","n","g"," ","t","i","p">>
MsgEmpty == <<>>

ChatMessages == { MsgBalance, MsgHello, MsgTip, MsgEmpty }

\* the messages sent to conversations
SentMessages == { MsgHello, MsgTip, MsgEmpty }

--------------------------------------------------------------------------
(* requiresTransactionData, server.js:81-91 *)

transactionKeywords ==
    << <<"b","a","l","a","n","c","e">>,
       <<"s","p","e","n","d">>,
       <<"s","p","e","n","t">>,
       <<"e","x","p","e","n","s","e">>,
       <<"i","n","c","o","m","e">>,
       <<"r","e","c","e","i","v","e">>,
       <<"r","e","c","e","i","v","e","d">>,
       <<"t","r","a","n","s","a","c","t","i","o","n">>,
       <<"m","o","n","e","y">>,
       <<"p","a","y","m","e","n","t">>,
       <<"t","r","a","n","s","f","e","r">>,
       <<"b","u","d","g","e","t">>,
       <<"f","i","n","a","n","c","i","a","l">>,
       <<"a","n","a","l","y","s","i","s">>,
       <<"s","u","m","m","a","r","y">>,
       <<"t","o","t","a","l">>,
       <<"a","m","o","u","n","t">>,
       <<"c","o","s","t">>,
       <<"p","r","i","c","e">>,
       <<"b","i","l","l">> >>

UpperCase ==
    <<"A","B","C","D","E","F","G","H","I","J","K","L","M","N","O","P","Q","R","S","T","U","V","W","X","Y","Z">>
LowerCase ==
    <<"a","b","c","d","e","f","g","h","i","j","k","l","m","n","o","p","q","r","s","t","u","v","w","x","y","z">>

\* String.prototype.toLowerCase on the characters the model uses
toLowerCase(s) ==
    [i \in 1..Len(s) |->
        IF \E k \in 1..Len(UpperCase) : UpperCase[k] = s[i]
        THEN LowerCase[CHOOSE k \in 1..Len(UpperCase) : UpperCase[k] = s[i]]
        ELSE s[i]]

\* String.prototype.includes
includes(s, keyword) ==
    \E i \in 0..(Len(s) - Len(keyword)) :
        \A j \in 1..Len(keyword) : s[i + j] = keyword[j]

\* transactionKeywords.some(keyword => message.toLowerCase().includes(keyword)),
\* tabulated over the messages of the model
KeywordMatch ==
    [ message \in ChatMessages |->
        \E k \in 1..Len(transactionKeywords) :
            includes(toLowerCase(message), transactionKeywords[k]) ]

requiresTransactionData(message) == KeywordMatch[message]

--------------------------------------------------------------------------
(* generateChatResponse, server.js:93-133 *)

ReferenceErrorMessage ==
    <<"p","r","o","m","p","t"," ","i","s"," ","n","o","t"," ","d","e","f","i","n","e","d">>
NetworkErrorMessage ==
    <<"N","e","t","w","o","r","k"," ","E","r","r","o","r">>

\* what the external generator may answer to a posted prompt
GeneratorReplies ==
    { [ok |-> TRUE, text |-> <<"o","k">>], [ok |-> FALSE, text |-> NetworkErrorMessage] }

ExcerptLen == 10

\* !userTransactions || userTransactions.length === 0, line 97
NoTransactionDataMutant(userTransactions) == ~userTransactions.present
NoTransactionData(userTransactions) ==
    \/ ~userTransactions.present
    \/ Len(userTransactions.value) = 0

\* the prompt of lines 102-110: the message, the week analysis and the last
\* ten transactions
GroundedPrompt(message, userTransactions, now) ==
    [ shape |-> "grounded",
      message |-> message,
      analysis |-> Some(analyzeTransactions(userTransactions.value, DefaultPeriod, now)),
      excerpt |-> SliceLast(userTransactions.value, ExcerptLen) ]

\* the prompt of lines 113-115: the message alone
GeneralPrompt(message) ==
    [ shape |-> "general", message |-> message, analysis |-> Absent, excerpt |-> <<>> ]

\* Both declarations of `prompt` (lines 102 and 113) are const declarations
\* inside the blocks of the if/else; the identifier `prompt` of line 120 is
\* outside those blocks, where no binding of that name exists.  Evaluating
\* the argument of axios.post therefore throws a ReferenceError before the
\* request is made.
PromptInScope == FALSE

\* the catch block, lines 129-132
catchReturnMutant(error) == Text(error)
catchReturn(error) == Null

\* generateChatResponse up to the point where it first suspends or returns.
\*   outcome "refused"  : returned null at line 98
\*   outcome "caught"   : an error was thrown inside the try, the catch block
\*                        logged it and returned
\*   outcome "awaiting" : the prompt was posted, the call awaits the reply
generateChatResponseStart(message, userTransactions, now) ==
    IF requiresTransactionData(message) /\ NoTransactionData(userTransactions)
    THEN [ outcome |-> "refused", value |-> Null, posted |-> <<>>, logged |-> FALSE ]
    ELSE LET prompt == IF requiresTransactionData(message)
                       THEN GroundedPrompt(message, userTransactions, now)
                       ELSE GeneralPrompt(message)
         IN IF PromptInScope
            THEN [ outcome |-> "awaiting", value |-> Null,
                   posted |-> << prompt >>, logged |-> FALSE ]
            ELSE [ outcome |-> "caught", value |-> catchReturn(ReferenceErrorMessage),
                   posted |-> <<>>, logged |-> TRUE ]

\* generateChatResponse from the reply of the generator to its return
\* (lines 118-132)
generateChatResponseFinish(route, reply) ==
    IF route.outcome # "awaiting" THEN route
    ELSE IF reply.ok
         THEN [ route EXCEPT !.outcome = "answered", !.value = Text(reply.text) ]
         ELSE [ route EXCEPT !.outcome = "caught", !.value = catchReturn(reply.text),
                             !.logged = TRUE ]

--------------------------------------------------------------------------
(* Inputs of the requests *)

Tx(timestamp, amount, name) == [ timestamp |-> timestamp, amount |-> amount, name |-> name ]

\* the transactions of the end-to-end scenario: Bob paid, Alice received from
SampleTransactions == << Tx(Epoch - 1, -50, "Bob"), Tx(Epoch, 200, "Alice") >>

ChatTransactions == { Absent, Some(<<>>), Some(SampleTransactions) }

\* conversation ids a client may address: the ids the clock can produce
ConversationIds == Epoch..(Epoch + MaxTicks)

AnalyzeTimes == { Epoch - YearLen, Epoch - MonthLen, Epoch - WeekLen, Epoch - DayLen, Epoch }
AnalyzeAmounts == { -2, 0, 1 }
AnalyzeNames == { "Bob", "Alice" }
AnalyzeTx == { Tx(ts, a, n) : ts \in AnalyzeTimes, a \in AnalyzeAmounts, n \in AnalyzeNames }

KnownPeriods == { "day", "week", "month", "year" }
UnknownPeriods == { "decade", "Week" }
PeriodInputs == { Absent } \cup { Some(p) : p \in KnownPeriods \cup UnknownPeriods }

AnalyzeBodies ==
    [ transactions : { Absent } \cup { Some(s) : s \in SeqsUpTo(AnalyzeTx, MaxTx) },
      period : PeriodInputs ]

RankNames == { "Bob", "Alice", "9", "10", "constructor" }
RankAmounts == { -1, 2 }
RankTx == { Tx(Epoch, a, n) : a \in RankAmounts, n \in RankNames }

\* the order in which the names of a long input first appear
Roster == << "Bob", "10", "Alice", "9", "Carol", "Dave", "Erin" >>

NamesOf(s) == { s[i].name : i \in 1..Len(s) }

\* the sequences of at most n transactions whose names first appear in the
\* order of the roster: each is a shorter one (k = 0), or a shorter one
\* extended by a transaction whose name occurred before or is the next name
\* of the roster
RECURSIVE RosterSeqs(_)
RosterSeqs(n) ==
    IF n = 0 THEN { <<>> }
    ELSE { IF k = 0 THEN s
           ELSE Append(s, Tx(Epoch, a, Roster[Min(k, Cardinality(NamesOf(s)) + 1)])) :
             s \in RosterSeqs(n - 1), a \in RankAmounts, k \in 0..Len(Roster) }

RankInputs == SeqsUpTo(RankTx, MaxPlainTx) \cup RosterSeqs(MaxRankTx)

--------------------------------------------------------------------------
(* The handlers *)

ConversationStarted ==
    <<"C","o","n","v","e","r","s","a","t","i","o","n"," ","s","t","a","r","t","e","d">>
NewConversation ==
    <<"N","e","w"," ","C","o","n","v","e","r","s","a","t","i","o","n">>

ErrRequired == "Message and userId are required"
ErrInsufficient == "This question requires transaction data to answer properly. Please ensure your Firebase transactions are synced."
ErrTransactions == "Transactions array is required"

\* a request that has been answered: the handler's locals are gone, how
\* generateChatResponse ended is kept
AnsweredRequest(route) ==
    [ pc |-> "done", id |-> Epoch, message |-> MsgEmpty, userId |-> FALSE,
      transactions |-> Absent, route |-> route ]

Response(status, error) == [ status |-> status, error |-> error ]

\* messages[id] || [] : the sequence stored under id, empty when id is no key
Stored(id) == IF id \in DOMAIN messages THEN messages[id] ELSE <<>>

\* messages with the own property `id` set to `sequence`
WithMessages(id, sequence) ==
    [ k \in (DOMAIN messages) \cup { id } |-> IF k = id THEN sequence ELSE messages[k] ]

\* the requests that changed the store so far
Arrivals == Len(conversations) + Len(requests)

\* POST /api/conversations, server.js:187-209
CreateConversation(title, userId) ==
    /\ Arrivals < MaxArrivals
    /\ LET conversationId == clock
           conversation == [ id |-> conversationId,
                             title |-> IF title.present THEN title.value ELSE NewConversation,
                             userId |-> userId,
                             createdAt |-> clock,
                             lastMessage |-> ConversationStarted,
                             lastMessageTime |-> clock ]
       IN /\ conversations' = Append(conversations, conversation)
          /\ messages' = WithMessages(conversationId, <<>>)
    /\ UNCHANGED << clock, requests, lastResponse, generatorCalls,
                    analyzeReq, analyzeRes, rankIn, rankOut >>

\* POST /api/conversations/:id/messages, server.js:225-247: from the arrival
\* of the request to the await of line 247 (or to the 400 of line 231)
SendMessageBegin(id, message, userId, transactions) ==
    /\ Arrivals < MaxArrivals
    /\ IF message = MsgEmpty \/ ~userId
       THEN /\ lastResponse' = Response(400, ErrRequired)
            /\ UNCHANGED << messages, generatorCalls, requests >>
       ELSE LET userMessage == [ id |-> clock, text |-> message, isMe |-> TRUE,
                                 timestamp |-> clock ]
                route == generateChatResponseStart(message, transactions, clock)
            IN /\ messages' = WithMessages(id, Append(Stored(id), userMessage))
               /\ generatorCalls' = generatorCalls \o route.posted
               /\ requests' = Append(requests,
                                  [ pc |-> "awaiting", id |-> id, message |-> message,
                                    userId |-> userId, transactions |-> transactions,
                                    route |-> route ])
               /\ UNCHANGED lastResponse
    /\ UNCHANGED << clock, conversations, analyzeReq, analyzeRes, rankIn, rankOut >>

\* conversations.findIndex(c => c.id === id): 0 stands for -1
findIndex(id) ==
    IF \E i \in 1..Len(conversations) : conversations[i].id = id
    THEN CHOOSE i \in 1..Len(conversations) :
            /\ conversations[i].id = id
            /\ \A j \in 1..(i - 1) : conversations[j].id # id
    ELSE 0

\* POST /api/conversations/:id/messages, server.js:247-279: from the
\* resumption after the await to the response
SendMessageResume(slot) ==
    /\ slot \in 1..Len(requests)
    /\ requests[slot].pc = "awaiting"
    /\ \E reply \in GeneratorReplies :
         LET r == requests[slot]
             route == generateChatResponseFinish(r.route, reply)
             aiResponse == route.value
             aiMessage == [ id |-> clock + 1, text |-> aiResponse.text, isMe |-> FALSE,
                            timestamp |-> clock ]
             conversationIndex == findIndex(r.id)
         IN /\ requests' = [ requests EXCEPT ![slot] = AnsweredRequest(route) ]
            /\ IF aiResponse.isNull
               THEN /\ lastResponse' = Response(400, ErrInsufficient)
                    /\ UNCHANGED << messages, conversations >>
               ELSE /\ messages' = WithMessages(r.id, Append(Stored(r.id), aiMessage))
                    /\ conversations' =
                           IF conversationIndex # 0
                           THEN [ conversations EXCEPT
                                    ![conversationIndex].lastMessage = r.message,
                                    ![conversationIndex].lastMessageTime = clock ]
                           ELSE conversations
                    /\ lastResponse' = Response(200, "")
    /\ UNCHANGED << clock, generatorCalls, analyzeReq, analyzeRes, rankIn, rankOut >>

\* the system clock advances
Tick ==
    /\ clock < Epoch + MaxTicks
    /\ clock' = clock + 1
    /\ UNCHANGED << conversations, messages, requests, lastResponse, generatorCalls,
                    analyzeReq, analyzeRes, rankIn, rankOut >>

NoResponse == [ status |-> 0, error |-> "", data |-> Absent ]

\* POST /api/analyze, server.js:138-152
AnalyzeHandler ==
    /\ analyzeRes = NoResponse
    /\ LET transactions == analyzeReq.transactions
           period == IF analyzeReq.period.present THEN analyzeReq.period.value
                     ELSE DefaultPeriod
       IN analyzeRes' =
            IF ~transactions.present
            THEN [ status |-> 400, error |-> ErrTransactions, data |-> Absent ]
            ELSE [ status |-> 200, error |-> "",
                   data |-> Some(analyzeTransactions(transactions.value, period, clock)) ]
    /\ UNCHANGED << serverVars, analyzeReq, rankIn, rankOut >>

\* a call of getTopPeople
RankCall ==
    /\ ~rankOut.present
    /\ rankOut' = Some(getTopPeople(rankIn))
    /\ UNCHANGED << serverVars, analyzeReq, analyzeRes, rankIn >>

--------------------------------------------------------------------------
(* Specifications *)

InitServer ==
    /\ clock = Epoch
    /\ conversations = <<>>
    /\ messages = [ k \in {} |-> <<>> ]
    /\ requests = <<>>
    /\ lastResponse = Response(0, "")
    /\ generatorCalls = <<>>

Init ==
    /\ InitServer
    /\ analyzeReq = [ transactions |-> Absent, period |-> Absent ]
    /\ analyzeRes = NoResponse
    /\ rankIn = <<>>
    /\ rankOut = Absent

Next ==
    \/ \E title \in { Absent, Some(MsgHello) }, userId \in { TRUE } :
          CreateConversation(title, userId)
    \/ \E id \in ConversationIds, message \in SentMessages,
          userId \in BOOLEAN, transactions \in ChatTransactions :
          SendMessageBegin(id, message, userId, transactions)
    \/ \E slot \in 1..Len(requests) : SendMessageResume(slot)
    \/ Tick

\* the conversation and message store with its handlers
Spec == Init /\ [][Next]_vars

InitAnalyze ==
    /\ InitServer
    /\ analyzeReq \in AnalyzeBodies
    /\ analyzeRes = NoResponse
    /\ rankIn = <<>>
    /\ rankOut = Absent

NextAnalyze == AnalyzeHandler

\* one POST /api/analyze request, for every body
SpecAnalyze == InitAnalyze /\ [][NextAnalyze]_vars

InitRank ==
    /\ InitServer
    /\ analyzeReq = [ transactions |-> Absent, period |-> Absent ]
    /\ analyzeRes = NoResponse
    /\ rankIn \in RankInputs
    /\ rankOut = Absent

NextRank == RankCall

\* one call of getTopPeople, for every input
SpecRank == InitRank /\ [][NextRank]_vars

--------------------------------------------------------------------------
(* Properties of the response router *)

Awaiting == { k \in 1..Len(requests) : requests[k].pc = "awaiting" }

\* C1: whenever the message requires transaction data and the request
\* carries no transactions (absent, or an empty sequence), generateChatResponse
\* returns null from its gate (line 98): nothing is posted to the generator,
\* nothing is thrown or logged, and no prompt has reached the generator.
C1_RefusedWithoutData ==
    \A k \in Awaiting :
        LET r == requests[k] IN
        ( /\ requiresTransactionData(r.message)
          /\ (~r.transactions.present \/ r.transactions.value = <<>>) )
        => /\ r.route.outcome = "refused"
           /\ r.route.value = Null
           /\ r.route.posted = <<>>
           /\ ~r.route.logged
           /\ generatorCalls = <<>>

\* a message containing a keyword ("budgeting" contains "budget") was sent
\* with an empty transaction array and was refused
C1_Witness ==
    \E k \in Awaiting :
        /\ requests[k].message = MsgTip
        /\ requiresTransactionData(requests[k].message)
        /\ requests[k].transactions = Some(<<>>)
        /\ requests[k].route.outcome = "refused"

\* C2: whenever the message does not require transaction data and the
\* request carries no transactions, generateChatResponse posts the
\* general-advice prompt (no transaction data) to the generator and awaits its
\* text.
C2_UngroundedInvokesGenerator ==
    \A k \in Awaiting :
        LET r == requests[k] IN
        (~requiresTransactionData(r.message) /\ ~r.transactions.present)
        => /\ r.route.outcome = "awaiting"
           /\ r.route.posted = << GeneralPrompt(r.message) >>

\* C3: whenever the message requires transaction data and the request
\* carries a non-empty transaction sequence, generateChatResponse posts exactly
\* one prompt, made of the week analysis of the transactions and their last
\* ten, and awaits the generator's text.
C3_GroundedInvokesGenerator ==
    \A k \in Awaiting :
        LET r == requests[k] IN
        ( /\ requiresTransactionData(r.message)
          /\ r.transactions.present
          /\ r.transactions.value # <<>> )
        => /\ r.route.outcome = "awaiting"
           /\ Len(r.route.posted) = 1
           /\ r.route.posted[1].shape = "grounded"
           /\ r.route.posted[1].excerpt = SliceLast(r.transactions.value, ExcerptLen)
           /\ \E now \in Epoch..clock :
                r.route.posted[1].analysis =
                    Some(analyzeTransactions(r.transactions.value, "week", now))

\* C4: when the call of the generator ends in a thrown error,
\* generateChatResponse returns null, and the send-message handler that resumes
\* with it stores no message and answers 400 with the insufficient-data error.
C4_FailureIsRefusal ==
    [][ \A k \in Awaiting :
          ( /\ requests[k].route.outcome = "caught"
            /\ requests'[k].pc = "done" )
          => /\ requests[k].route.value = Null
             /\ requests'[k].route.outcome = "caught"
             /\ requests'[k].route.value = Null
             /\ messages' = messages
             /\ lastResponse' = Response(400, ErrInsufficient) ]_vars

\* a request whose generator call threw has been answered, and what is
\* stored under the id it was sent to holds user messages only
C4_Witness ==
    /\ \E k \in 1..Len(requests) :
          /\ requests[k].pc = "done"
          /\ requests[k].route.outcome = "caught"
          /\ requests[k].route.logged
    /\ lastResponse = Response(400, ErrInsufficient)
    /\ \E id \in DOMAIN messages :
          /\ messages[id] # <<>>
          /\ \A i \in 1..Len(messages[id]) : messages[id][i].isMe

--------------------------------------------------------------------------
(* Properties of the store *)

\* C8: no two conversations of the list have the same id.
C8_UniqueConversationIds ==
    \A i, j \in 1..Len(conversations) :
        i # j => conversations[i].id # conversations[j].id

IsPrefix(s, t) == Len(s) <= Len(t) /\ SubSeq(t, 1, Len(s)) = s

\* What the store holds (holds under Spec): every stored message is a user
\* message.  generateChatResponse returns null on every path, so no handler
\* reaches the push of line 264.
OnlyUserMessagesStored ==
    \A id \in DOMAIN messages :
        \A i \in 1..Len(messages[id]) : messages[id][i].isMe

\* C9: the sequence stored under an id is append-only: what is stored under
\* an id before a step is a prefix of what is stored under it after the step.
C9_AppendOnly ==
    [][ \A id \in DOMAIN messages :
          /\ id \in DOMAIN messages'
          /\ IsPrefix(messages[id], messages'[id]) ]_vars

--------------------------------------------------------------------------
(* Properties of analyzeTransactions *)

\* the period the analysis is asked for: 'week' when the body names none
RequestedPeriod ==
    IF analyzeReq.period.present THEN analyzeReq.period.value ELSE "week"

\* now - lookback(period) as the specification states it: one day, one week,
\* one month, one year, and one week for any other value
WindowStart(period) ==
    clock - (IF period = "day" THEN DayLen
             ELSE IF period = "month" THEN MonthLen
             ELSE IF period = "year" THEN YearLen
             ELSE WeekLen)

\* positions of the transactions strictly after the start of the window
InWindow(ts, period) == { i \in 1..Len(ts) : ts[i].timestamp > WindowStart(period) }

RECURSIVE AmountSum(_, _)
AmountSum(ts, positions) ==
    IF positions = {} THEN 0
    ELSE LET i == CHOOSE i \in positions : TRUE
         IN ts[i].amount + AmountSum(ts, positions \ { i })

\* C5: transactionCount is the number of transactions strictly after
\* now - lookback(period), whatever their sign; totalSpent is the sum of
\* |amount| over those with amount < 0; totalReceived the sum of amount over
\* those with amount > 0; both are >= 0 and netAmount is their difference.
C5_SummaryTotals ==
    analyzeRes.status = 200 =>
        LET ts == analyzeReq.transactions.value
            W == InWindow(ts, RequestedPeriod)
            d == analyzeRes.data.value
        IN /\ d.transactionCount = Cardinality(W)
           /\ d.totalSpent = 0 - AmountSum(ts, { i \in W : ts[i].amount < 0 })
           /\ d.totalReceived = AmountSum(ts, { i \in W : ts[i].amount > 0 })
           /\ d.totalSpent >= 0
           /\ d.totalReceived >= 0
           /\ d.netAmount = d.totalReceived - d.totalSpent

\* an analysis whose input holds a transaction exactly at the start of the
\* window (left out) and a zero-amount transaction inside it (counted)
C5_Witness ==
    /\ analyzeRes.status = 200
    /\ LET ts == analyzeReq.transactions.value
       IN /\ \E i \in 1..Len(ts) : ts[i].timestamp = WindowStart(RequestedPeriod)
          /\ \E i \in InWindow(ts, RequestedPeriod) : ts[i].amount = 0
          /\ analyzeRes.data.value.transactionCount = 1

UnknownPeriodAnalyzed ==
    /\ analyzeRes # NoResponse
    /\ analyzeReq.transactions.present
    /\ analyzeReq.period.present
    /\ analyzeReq.period.value \notin KnownPeriods

\* C7 as claimed: for a period outside {day, week, month, year} the analysis
\* succeeds and its summary is the summary of the same transactions for the
\* period week.
C7_UnknownPeriodIsWeek ==
    UnknownPeriodAnalyzed =>
        /\ analyzeRes.status = 200
        /\ analyzeRes.data =
             Some(analyzeTransactions(analyzeReq.transactions.value, "week", clock))

\* C7 as amended: for a period outside {day, week, month, year} the analysis
\* succeeds, and its summary agrees with the summary for the period week in
\* every field but `period`, which holds the value that was given.
C7_UnknownPeriodIsWeekButForPeriod ==
    UnknownPeriodAnalyzed =>
        /\ analyzeRes.status = 200
        /\ analyzeRes.data =
             Some([ analyzeTransactions(analyzeReq.transactions.value, "week", clock)
                      EXCEPT !.period = analyzeReq.period.value ])

\* an analysis for an unrecognized period over a transaction exactly one
\* week old (outside the week window, inside any longer one) and a newer one
C7_Witness ==
    /\ UnknownPeriodAnalyzed
    /\ LET ts == analyzeReq.transactions.value
       IN /\ \E i \in 1..Len(ts) : ts[i].timestamp = clock - WeekLen
          /\ \E i \in 1..Len(ts) : ts[i].timestamp > clock - WeekLen
          /\ analyzeRes.data.value.transactionCount = 1

--------------------------------------------------------------------------
(* Properties of getTopPeople *)

FirstOccurrence(ts, name) ==
    CHOOSE i \in 1..Len(ts) :
        /\ ts[i].name = name
        /\ \A j \in 1..(i - 1) : ts[j].name # name

PositionsOf(ts, name) == { i \in 1..Len(ts) : ts[i].name = name }

RECURSIVE AbsSum(_, _)
AbsSum(ts, positions) ==
    IF positions = {} THEN 0
    ELSE LET i == CHOOSE i \in positions : TRUE
         IN Abs(ts[i].amount) + AbsSum(ts, positions \ { i })

RECURSIVE CountSum(_)
CountSum(groups) ==
    IF groups = <<>> THEN 0 ELSE Head(groups).count + CountSum(Tail(groups))

\* every aggregate is the aggregate of a name of the input, and no name has two
AggregatesOfInput(ts, out) ==
    /\ \A i \in 1..Len(out) :
          /\ out[i].name \in NamesOf(ts)
          /\ out[i].amount = AbsSum(ts, PositionsOf(ts, out[i].name))
          /\ out[i].count = Cardinality(PositionsOf(ts, out[i].name))
    /\ \A i, j \in 1..Len(out) : i # j => out[i].name # out[j].name

\* the order in which a plain object enumerates two of its keys: array-index
\* keys first and ascending, the other keys in the order of their creation
KeyBefore(ts, a, b) ==
    IF a \in ArrayIndexNames
    THEN b \notin ArrayIndexNames \/ ArrayIndexValue(a) < ArrayIndexValue(b)
    ELSE b \notin ArrayIndexNames /\ FirstOccurrence(ts, a) < FirstOccurrence(ts, b)

\* C6: at most 5 aggregates, one per distinct name of the input,
\* descending by amount, aggregates of equal amount in the order in which
\* their names first occur in the input; the counts sum to at most the number
\* of transactions; an empty input gives an empty result.
C6_RankedByFirstOccurrence ==
    rankOut.present =>
        LET out == rankOut.value IN
        /\ Len(out) <= 5
        /\ Len(out) = Min(5, Cardinality(NamesOf(rankIn)))
        /\ AggregatesOfInput(rankIn, out)
        /\ \A i, j \in 1..Len(out) :
              i < j => \/ out[i].amount > out[j].amount
                       \/ /\ out[i].amount = out[j].amount
                          /\ FirstOccurrence(rankIn, out[i].name)
                               < FirstOccurrence(rankIn, out[j].name)
        /\ CountSum(out) <= Len(rankIn)
        /\ (rankIn = <<>> => out = <<>>)

\* What getTopPeople returns instead (holds under SpecRank): at most 5
\* aggregates, one per distinct name of the input that is not an inherited
\* property of a plain object, descending by amount, aggregates of equal
\* amount in the key order of a plain object (array-index names first and
\* ascending, the other names in the order in which they first occur); the
\* counts sum to at most the number of transactions; an empty input gives an
\* empty result.
RankedByKeyOrder ==
    rankOut.present =>
        LET out == rankOut.value IN
        /\ Len(out) <= 5
        /\ Len(out) = Min(5, Cardinality(NamesOf(rankIn) \ PrototypeNames))
        /\ AggregatesOfInput(rankIn, out)
        /\ \A i \in 1..Len(out) : out[i].name \notin PrototypeNames
        /\ \A i, j \in 1..Len(out) :
              i < j => \/ out[i].amount > out[j].amount
                       \/ /\ out[i].amount = out[j].amount
                          /\ KeyBefore(rankIn, out[i].name, out[j].name)
        /\ CountSum(out) <= Len(rankIn)
        /\ (rankIn = <<>> => out = <<>>)

==========================================================================
